---- MODULE Spec2Model ----
(***************************************************************************)
(* Ecosystem simulation (src/ecosystem_simulation_system.py): organisms    *)
(* (Organism, Plant, Herbivore, Carnivore) with an energy and an alive     *)
(* flag, and an Environment that owns an ordered collection of organisms   *)
(* and advances in daily ticks (simulate_day).                             *)
(*                                                                         *)
(* Numbers.  The program computes with Python numbers; the model keeps     *)
(* every energy as an integer number of thousandths (Scale per unit), the  *)
(* growth rate and the hunting efficiency in hundredths, the weather       *)
(* factor in tenths and a random draw in thousandths.  With the inputs     *)
(* used here every product of the program is exact in these units.         *)
(*                                                                         *)
(* Strings.  Identifiers are only compared for equality and are TLA+       *)
(* strings.  Species names and plant preferences go through str.lower()    *)
(* and are sequences of character codes; None is the value NoneVal.        *)
(***************************************************************************)
EXTENDS Integers, Sequences, FiniteSets, TLC

VARIABLES
    energy,             \* Organism._energy      : Obj -> Int (thousandths)
    is_alive,           \* Organism._is_alive    : Obj -> BOOLEAN
    food_eaten,         \* Animal._food_eaten    : Obj -> Nat
    organisms,          \* Environment.__organisms : Seq(Obj)
    weather_condition,  \* Environment.__weather_condition
    day_count,          \* Environment.__day_count
    last,               \* observation: the last public call, its result and events
    pre,                \* observation: the state the last public call started from
    calls,              \* number of public calls made so far
    days_simulated,     \* number of simulate_day calls made so far
    next_id,            \* Environment.__next_id
    returned,           \* the list a caller got from env.organisms and still holds
    organism_count,     \* Organism.organism_count (class variable)
    pending             \* objects no longer referenced whose __del__ has not run

vars == <<energy, is_alive, food_eaten, organisms, weather_condition,
          day_count, last, pre, calls, days_simulated, next_id, returned,
          organism_count, pending>>

----------------------------------------------------------------------------
(* Bounds of the exploration *)

MaxCalls == 2

----------------------------------------------------------------------------
(* Units and program constants *)

Scale == 10 * 100                \* thousandths per energy unit

Max(a, b) == IF a >= b THEN a ELSE b
Min(a, b) == IF a <= b THEN a ELSE b

ForageCap     == 25 * Scale      \* min(target_plant.energy, 25)
HuntGainCap   == 50 * Scale      \* min(target_prey.energy * 0.7, 50)
FailedHuntCost == 5 * Scale      \* self.consume_energy(5)
InteractPlantCap == 25 * Scale   \* min(25, ...)
InteractPreyCap  == 40 * Scale   \* min(40, other_organism.energy)
M_PlantDailyCost_double == 2 * Scale
PlantDailyCost == 1 * Scale      \* organism.consume_energy(1)

----------------------------------------------------------------------------
(* Strings that go through str.lower() *)

NoneVal == <<0>>
IsStr(s) == s # NoneVal

\* str.lower() on ASCII: 'A'..'Z' (65..90) become 'a'..'z'
Lower(s) == [i \in 1..Len(s) |-> IF s[i] \in 65..90 THEN s[i] + 32 ELSE s[i]]

Str_Grass   == <<71, 114, 97, 115, 115>>          \* "Grass"
Str_grass   == <<103, 114, 97, 115, 115>>         \* "grass"
Str_OakTree == <<79, 97, 107, 32, 84, 114, 101, 101>>  \* "Oak Tree"
Str_Rabbit  == <<82, 97, 98, 98, 105, 116>>       \* "Rabbit"
Str_Wolf    == <<87, 111, 108, 102>>              \* "Wolf"
Str_Test    == <<84, 101, 115, 116>>              \* "Test"
Str_Deer    == <<68, 101, 101, 114>>              \* "Deer"
Str_oaktree == <<111, 97, 107, 32, 116, 114, 101, 101>> \* "oak tree"
Str_Oak     == <<79, 97, 107>>                    \* "Oak"

----------------------------------------------------------------------------
(* The organisms constructed by the program.  Each is one object; two      *)
(* objects may carry the same identifier.                                  *)

Obj == 1..9

\* The organisms the menu of main() can create: org_type 1, 2 or 3 gives the
\* prefix and the class, forest.get_next_id() the number.
MenuTypes == <<[id_prefix |-> "P", cls |-> "Plant"],
               [id_prefix |-> "H", cls |-> "Herbivore"],
               [id_prefix |-> "C", cls |-> "Carnivore"]>>

\* f"{id_num:03d}": at least three digits, padded with zeros
Pad03(n) ==
    IF n < 10 THEN "00" \o ToString(n)
    ELSE IF n < 100 THEN "0" \o ToString(n)
    ELSE ToString(n)

\* org_id = f"{id_prefix}{id_num:03d}"
MenuId(id_prefix, id_num) == id_prefix \o Pad03(id_num)

\* the object the menu creates for org_type t with number n: the objects after
\* those of Obj, three for each number
MenuObject(t, n) == 9 + 3 * (n - 1) + t
MenuObj == 10..(9 + 3 * MaxCalls)

\* the class of each object
kind == <<"Plant", "Plant", "Herbivore", "Carnivore", "Organism", "Plant", "Herbivore",
          "Organism", "Plant">>
        \o [i \in 1..3 * MaxCalls |-> MenuTypes[((i - 1) % 3) + 1].cls]
\* Organism._id
id == <<"P001", "P002", "H001", "C001", "P001", "P003", "H002", "O001", "P001">>
      \o [i \in 1..3 * MaxCalls |->
             MenuId(MenuTypes[((i - 1) % 3) + 1].id_prefix, ((i - 1) \div 3) + 1)]
\* Organism._species_name
species_name == <<Str_Grass, Str_OakTree, Str_Rabbit, Str_Wolf, Str_Test, NoneVal, Str_Deer,
                  Str_Test, Str_Oak>>
\* Plant._growth_rate, hundredths (0 where the class has none)
growth_rate == <<30, 20, 0, 0, 0, 10, 0, 0, -10>>
\* Animal._speed (0 where the class has none)
speed == <<0, 0, 3, 5, 0, 0, 2, 0, 0>>
\* Herbivore._plant_preference
plant_preference ==
    <<NoneVal, NoneVal, Str_grass, NoneVal, NoneVal, NoneVal, Str_oaktree, NoneVal, NoneVal>>
\* Carnivore._hunting_efficiency, hundredths
hunting_efficiency == <<0, 0, 0, 70, 0, 0, 0, 0, 0>>
\* the energy argument each object is constructed with (is_alive is True)
InitEnergy ==
    <<50 * Scale, 100 * Scale, 70 * Scale, 80 * Scale, 50 * Scale, 20 * Scale, 30 * Scale,
      -10 * Scale, 100 * Scale>>

\* isinstance(o, C)
IsPlant(o)     == kind[o] = "Plant"
IsHerbivore(o) == kind[o] = "Herbivore"
IsCarnivore(o) == kind[o] = "Carnivore"
IsAnimal(o)    == kind[o] \in {"Animal", "Herbivore", "Carnivore"}

----------------------------------------------------------------------------
(* Construction.  An identifier argument is a string or some other value;  *)
(* it is kept as the pair of isinstance(id, str) and its text.             *)

StrArg(text) == [isstr |-> TRUE, v |-> text]
NonStrArg(text) == [isstr |-> FALSE, v |-> text]

\* the fields of an organism that was not constructed
NoOrganism == [id |-> "", species_name |-> NoneVal, energy |-> 0, is_alive |-> FALSE]

\* Organism.__init__: rejects an id that is not a non-empty string, then
\* stores the arguments as they are
M_Organism_init_any_id(ident, species, e, alive) ==
    [err |-> "",
     obj |-> [id |-> ident.v, species_name |-> species, energy |-> e, is_alive |-> alive]]
M_Organism_init_clamps(ident, species, e, alive) ==
    IF ~ident.isstr \/ ident.v = ""
    THEN [err |-> "InvalidInputException", obj |-> NoOrganism]
    ELSE [err |-> "",
          obj |-> [id |-> ident.v, species_name |-> species, energy |-> Max(0, e),
                   is_alive |-> alive]]
Organism_init(ident, species, e, alive) ==
    IF ~ident.isstr \/ ident.v = ""
    THEN [err |-> "InvalidInputException", obj |-> NoOrganism]
    ELSE [err |-> "",
          obj |-> [id |-> ident.v, species_name |-> species, energy |-> e,
                   is_alive |-> alive]]

\* Plant.__init__, Animal.__init__, Herbivore.__init__, Carnivore.__init__: each
\* calls super().__init__ first and then stores its own arguments
Subclass_init(cls, ident, species, e, alive) == Organism_init(ident, species, e, alive)

\* the object o as its constructor call leaves it
Constructed(o) == Subclass_init(kind[o], StrArg(id[o]), species_name[o], InitEnergy[o], TRUE).obj

\* Organism.organism_count += 1, the last statement of Organism.__init__: not
\* reached when __init__ raised
count_init(count, r) == IF r.err = "" THEN count + 1 ELSE count

\* Organism.__del__: Organism.organism_count -= 1, for every object the
\* interpreter destroys (object.__new__ made it before __init__ ran)
count_del(count) == count - 1

\* the objects that are no longer referenced and not yet destroyed: those whose
\* __init__ returned and those whose __init__ raised
NoPending == [ok |-> 0, rejected |-> 0]
Dropped(p, r) ==
    IF r.err = "" THEN [p EXCEPT !.ok = @ + 1] ELSE [p EXCEPT !.rejected = @ + 1]

----------------------------------------------------------------------------
(* The organisms' fields as one value, so that an operation is a function  *)
(* from the fields before to the fields after.                             *)

Heap(e, a, f) == [energy |-> e, is_alive |-> a, food_eaten |-> f]
Cur == Heap(energy, is_alive, food_eaten)

\* the energy setter: self._energy = max(0, value); dead when <= 0
M_energy_set_noclamp(h, o, value) ==
    [h EXCEPT !.energy[o] = value,
              !.is_alive[o] = IF value <= 0 THEN FALSE ELSE @]
M_energy_set_revive(h, o, value) ==
    [h EXCEPT !.energy[o] = Max(0, value),
              !.is_alive[o] = (Max(0, value) > 0)]
M_energy_set_dies_negative(h, o, value) ==
    [h EXCEPT !.energy[o] = Max(0, value),
              !.is_alive[o] = IF value < 0 THEN FALSE ELSE @]
energy_set(h, o, value) ==
    LET e == Max(0, value)
    IN  [h EXCEPT !.energy[o] = e,
                  !.is_alive[o] = IF e <= 0 THEN FALSE ELSE @]

\* Organism.consume_energy: self.energy -= amount; returns self._is_alive
consume_energy(h, o, amount) ==
    LET h2 == energy_set(h, o, h.energy[o] - amount)
    IN  [h |-> h2, ret |-> h2.is_alive[o]]

\* weather_factors.get(weather_condition, 0.5), in tenths
M_weather_factor_flat(w) ==
    CASE w = "sunny"  -> 10
      [] w = "cloudy" -> 3
      [] w = "rainy"  -> 3
      [] OTHER        -> 5
weather_factor(w) ==
    CASE w = "sunny"  -> 10
      [] w = "cloudy" -> 6
      [] w = "rainy"  -> 3
      [] OTHER        -> 5

\* energy_gain = 10 * growth_rate * factor, in thousandths
M_photo_gain_no_factor(p, w) == (10 * growth_rate[p] * Scale) \div 100
photo_gain(p, w) == (10 * growth_rate[p] * weather_factor(w) * Scale) \div (100 * 10)

\* Plant.photosynthesize: self.energy += energy_gain; returns energy_gain
photosynthesize(h, p, w) ==
    [h |-> energy_set(h, p, h.energy[p] + photo_gain(p, w)), gain |-> photo_gain(p, w)]

----------------------------------------------------------------------------
(* Herbivore.hunt and Carnivore.hunt.  Each yields the set of results the  *)
(* call can have: one per value of random.choice and of random.random().   *)
(* A result is the fields after the call, the value returned, the          *)
(* exception raised ("" for none), the prey chosen (0 for none) and the    *)
(* energy moved.                                                           *)

Result(h, ret, err, t, amt) == [h |-> h, ret |-> ret, err |-> err, t |-> t, amt |-> amt]

Elems(s) == {s[i] : i \in 1..Len(s)}

\* self.energy += energy_gain; target_plant.energy -= energy_gain;
\* self._food_eaten += 1; return True
M_forage_nocap(h, self, p) ==
    LET gain == h.energy[p]
        h1 == energy_set(h, self, h.energy[self] + gain)
        h2 == energy_set(h1, p, h1.energy[p] - gain)
    IN  Result([h2 EXCEPT !.food_eaten[self] = @ + 1], TRUE, "", p, gain)
forage(h, self, p) ==
    LET gain == Min(h.energy[p], ForageCap)
        h1 == energy_set(h, self, h.energy[self] + gain)
        h2 == energy_set(h1, p, h1.energy[p] - gain)
    IN  Result([h2 EXCEPT !.food_eaten[self] = @ + 1], TRUE, "", p, gain)

\* Herbivore.hunt(prey_organisms)
M_Herbivore_hunt_no_preference(h, self, prey_organisms) ==
    IF ~h.is_alive[self] THEN {Result(h, FALSE, "", 0, 0)}
    ELSE
    LET available_plants ==
            SelectSeq(prey_organisms, LAMBDA org : IsPlant(org) /\ h.is_alive[org])
    IN  IF available_plants = <<>> THEN {Result(h, FALSE, "", 0, 0)}
        ELSE IF \E p \in Elems(available_plants) :
                    ~IsStr(species_name[p]) \/ ~IsStr(plant_preference[self])
        THEN {Result(h, FALSE, "AttributeError", 0, 0)}
        ELSE {forage(h, self, p) : p \in Elems(available_plants)}
Herbivore_hunt(h, self, prey_organisms) ==
    IF ~h.is_alive[self] THEN {Result(h, FALSE, "", 0, 0)}
    ELSE
    LET available_plants ==
            SelectSeq(prey_organisms, LAMBDA org : IsPlant(org) /\ h.is_alive[org])
    IN  IF available_plants = <<>> THEN {Result(h, FALSE, "", 0, 0)}
        ELSE IF \E p \in Elems(available_plants) :
                    ~IsStr(species_name[p]) \/ ~IsStr(plant_preference[self])
        THEN \* None has no lower(): the list comprehension raises
             {Result(h, FALSE, "AttributeError", 0, 0)}
        ELSE
        LET preferred_plants ==
                SelectSeq(available_plants,
                          LAMBDA p : Lower(species_name[p]) = Lower(plant_preference[self]))
            choices == IF preferred_plants # <<>> THEN preferred_plants
                       ELSE available_plants
        IN  {forage(h, self, p) : p \in Elems(choices)}

\* random.random() <= hunting_efficiency * (speed / (target.speed + 1)),
\* the draw in thousandths and the efficiency in hundredths
M_hunt_succeeds_strict(self, t, draw) ==
    draw * 100 * (speed[t] + 1) < hunting_efficiency[self] * speed[self] * Scale
hunt_succeeds(self, t, draw) ==
    draw * 100 * (speed[t] + 1) <= hunting_efficiency[self] * speed[self] * Scale

\* the two branches of Carnivore.hunt once the prey is chosen
strike(h, self, t, draw) ==
    IF hunt_succeeds(self, t, draw)
    THEN LET gain == Min((h.energy[t] * 7) \div 10, HuntGainCap)
             h1 == energy_set(h, self, h.energy[self] + gain)
             h2 == energy_set(h1, t, 0)
         IN  Result([h2 EXCEPT !.food_eaten[self] = @ + 1], TRUE, "", t, gain)
    ELSE Result(consume_energy(h, self, FailedHuntCost).h, FALSE, "", t, 0)

\* Carnivore.hunt(prey_organisms), for one value of random.random()
M_Carnivore_hunt_pays_always(h, self, prey_organisms, draw) ==
    IF ~h.is_alive[self] THEN {Result(h, FALSE, "", 0, 0)}
    ELSE
    LET available_prey ==
            SelectSeq(prey_organisms, LAMBDA org : IsHerbivore(org) /\ h.is_alive[org])
    IN  IF available_prey = <<>>
        THEN {Result(consume_energy(h, self, FailedHuntCost).h, FALSE, "", 0, 0)}
        ELSE {strike(h, self, t, draw) : t \in Elems(available_prey)}
Carnivore_hunt(h, self, prey_organisms, draw) ==
    IF ~h.is_alive[self] THEN {Result(h, FALSE, "", 0, 0)}
    ELSE
    LET available_prey ==
            SelectSeq(prey_organisms, LAMBDA org : IsHerbivore(org) /\ h.is_alive[org])
    IN  IF available_prey = <<>> THEN {Result(h, FALSE, "", 0, 0)}
        ELSE {IF speed[t] + 1 = 0
              THEN Result(h, FALSE, "ZeroDivisionError", t, 0)
              ELSE strike(h, self, t, draw) : t \in Elems(available_prey)}

----------------------------------------------------------------------------
(* interact, dispatched on the class of self *)

\* Organism.interact: the base implementation does nothing
Organism_interact(h, self, other) == Result(h, FALSE, "", 0, 0)

\* Plant.interact
M_Plant_interact_dead_plant(h, self, other) ==
    IF IsHerbivore(other)
    THEN LET energy_transfer == Min(InteractPlantCap, h.energy[self])
             h1 == energy_set(h, other, h.energy[other] + energy_transfer)
             h2 == energy_set(h1, self, h1.energy[self] - energy_transfer)
         IN  Result(h2, TRUE, "", other, energy_transfer)
    ELSE Result(h, FALSE, "", 0, 0)
Plant_interact(h, self, other) ==
    IF IsHerbivore(other) /\ h.is_alive[self]
    THEN LET energy_transfer == Min(InteractPlantCap, h.energy[self])
             h1 == energy_set(h, other, h.energy[other] + energy_transfer)
             h2 == energy_set(h1, self, h1.energy[self] - energy_transfer)
         IN  Result(h2, TRUE, "", other, energy_transfer)
    ELSE Result(h, FALSE, "", 0, 0)

\* Herbivore.interact
Herbivore_interact(h, self, other) ==
    IF IsPlant(other) /\ h.is_alive[self] /\ h.is_alive[other]
    THEN LET energy_transfer == Min(InteractPlantCap, h.energy[other])
             h1 == energy_set(h, self, h.energy[self] + energy_transfer)
             h2 == energy_set(h1, other, h1.energy[other] - energy_transfer)
         IN  Result([h2 EXCEPT !.food_eaten[self] = @ + 1], TRUE, "", other, energy_transfer)
    ELSE Result(h, FALSE, "", 0, 0)

\* Carnivore.interact: random.random() <= hunting_efficiency
Carnivore_interact(h, self, other, draw) ==
    IF IsHerbivore(other) /\ h.is_alive[self] /\ h.is_alive[other]
       /\ draw * 100 <= hunting_efficiency[self] * Scale
    THEN LET energy_transfer == Min(InteractPreyCap, h.energy[other])
             h1 == energy_set(h, self, h.energy[self] + energy_transfer)
             h2 == energy_set(h1, other, 0)
         IN  Result([h2 EXCEPT !.food_eaten[self] = @ + 1], TRUE, "", other, energy_transfer)
    ELSE Result(h, FALSE, "", 0, 0)

interact(h, self, other, draw) ==
    CASE IsPlant(self)     -> Plant_interact(h, self, other)
      [] IsHerbivore(self) -> Herbivore_interact(h, self, other)
      [] IsCarnivore(self) -> Carnivore_interact(h, self, other, draw)
      [] OTHER             -> Organism_interact(h, self, other)

----------------------------------------------------------------------------
(* Environment: construction and the weather *)

\* Environment.__init__ stores the weather argument as it is
Environment_init(w) ==
    [weather_condition |-> w, organisms |-> <<>>, day_count |-> 0, next_id |-> 1]

\* the weather setter: if condition in ["sunny", "cloudy", "rainy"]: store it
M_weather_condition_set_any(w, condition) == condition
M_weather_condition_set_ignores(w, condition) == w
weather_condition_set(w, condition) ==
    IF condition \in {"sunny", "cloudy", "rainy"} THEN condition ELSE w

----------------------------------------------------------------------------
(* Environment: the collection *)

\* the organisms property: return self.__organisms.copy().  A list held by a
\* caller is its items and whether it is the environment's own list object
NoList == [held |-> FALSE, alias |-> FALSE, items |-> <<>>]
M_organisms_property_alias(orgs) == [held |-> TRUE, alias |-> TRUE, items |-> orgs]
organisms_property(orgs) == [held |-> TRUE, alias |-> FALSE, items |-> orgs]

\* Environment.get_next_id
get_next_id(n) == [ret |-> n, next_id |-> n + 1]

HasId(orgs, ident) == \E i \in 1..Len(orgs) : id[orgs[i]] = ident

\* Environment.add_organism
M_add_organism_identity(orgs, o) ==
    IF \E i \in 1..Len(orgs) : orgs[i] = o THEN [orgs |-> orgs, ret |-> FALSE]
    ELSE [orgs |-> Append(orgs, o), ret |-> TRUE]
add_organism(orgs, o) ==
    IF HasId(orgs, id[o]) THEN [orgs |-> orgs, ret |-> FALSE]
    ELSE [orgs |-> Append(orgs, o), ret |-> TRUE]

\* Environment.remove_organism: pops the first organism with that identifier
M_remove_organism_truncates(orgs, ident) ==
    IF HasId(orgs, ident)
    THEN LET i == CHOOSE k \in 1..Len(orgs) :
                      /\ id[orgs[k]] = ident
                      /\ \A j \in 1..(k - 1) : id[orgs[j]] # ident
         IN  [orgs |-> SubSeq(orgs, 1, i - 1), ret |-> TRUE]
    ELSE [orgs |-> orgs, ret |-> FALSE]
remove_organism(orgs, ident) ==
    IF HasId(orgs, ident)
    THEN LET i == CHOOSE k \in 1..Len(orgs) :
                      /\ id[orgs[k]] = ident
                      /\ \A j \in 1..(k - 1) : id[orgs[j]] # ident
         IN  [orgs |-> SubSeq(orgs, 1, i - 1) \o SubSeq(orgs, i + 1, Len(orgs)),
              ret |-> TRUE]
    ELSE [orgs |-> orgs, ret |-> FALSE]

\* Environment.find_organism_by_id: the first organism with that identifier
\* (found 0 and OrganismNotFoundException when there is none)
M_find_organism_by_id_living(orgs, ident) ==
    IF \E i \in 1..Len(orgs) : id[orgs[i]] = ident /\ is_alive[orgs[i]]
    THEN [found |-> orgs[CHOOSE k \in 1..Len(orgs) :
                            id[orgs[k]] = ident /\ is_alive[orgs[k]]],
          err |-> ""]
    ELSE [found |-> 0, err |-> "OrganismNotFoundException"]
M_find_organism_by_id_first(orgs, ident) ==
    IF orgs # <<>> THEN [found |-> orgs[1], err |-> ""]
    ELSE [found |-> 0, err |-> "OrganismNotFoundException"]
find_organism_by_id(orgs, ident) ==
    IF HasId(orgs, ident)
    THEN [found |-> orgs[CHOOSE k \in 1..Len(orgs) :
                            /\ id[orgs[k]] = ident
                            /\ \A j \in 1..(k - 1) : id[orgs[j]] # ident],
          err |-> ""]
    ELSE [found |-> 0, err |-> "OrganismNotFoundException"]

\* Environment.get_organisms_by_type
get_organisms_by_type(orgs, cls) ==
    SelectSeq(orgs, LAMBDA org : CASE cls = "Plant"     -> IsPlant(org)
                                   [] cls = "Herbivore" -> IsHerbivore(org)
                                   [] cls = "Carnivore" -> IsCarnivore(org)
                                   [] cls = "Animal"    -> IsAnimal(org)
                                   [] OTHER             -> TRUE)

\* Environment.get_population_count
M_get_population_count_dead_too(h, orgs) ==
    [cls \in {"Plant", "Herbivore", "Carnivore"} |->
        Len(get_organisms_by_type(orgs, cls))]
get_population_count(h, orgs) ==
    [cls \in {"Plant", "Herbivore", "Carnivore"} |->
        Len(SelectSeq(get_organisms_by_type(orgs, cls), LAMBDA o : h.is_alive[o]))]

----------------------------------------------------------------------------
(* Environment.simulate_day.  A tick in progress is the organisms' fields, *)
(* the events so far and the exception raised ("" for none); an exception  *)
(* leaves the method at once.  An event records the phase, the organism    *)
(* acting, its prey (0 for none), whether the call returned True, the      *)
(* energy moved or consumed, and the energies of the organism and of the   *)
(* prey just before the event.                                             *)

Event(ph, o, t, ok, amt, eo, et) ==
    [ph |-> ph, o |-> o, t |-> t, ok |-> ok, amt |-> amt, eo |-> eo, et |-> et]

Tick(h, log, err) == [h |-> h, log |-> log, err |-> err]

\* random.random() in thousandths: 0.7 (the efficiency of the carnivore),
\* 0.875 (its chance 0.7 * 5 / 4 against speed 3) and 0.999
Draws == {700, 875, 999}

\* for organism in self.__organisms:
\*     if isinstance(organism, Plant) and organism.is_alive: photosynthesize
RECURSIVE M_photo_phase_dead_too(_, _, _, _)
M_photo_phase_dead_too(ts, orgs, w, i) ==
    IF i > Len(orgs) THEN ts
    ELSE LET o == orgs[i]
         IN  IF IsPlant(o)
             THEN LET r == photosynthesize(ts.h, o, w)
                  IN  M_photo_phase_dead_too(
                          Tick(r.h,
                               Append(ts.log, Event("photo", o, 0, TRUE, r.gain,
                                                    ts.h.energy[o], 0)),
                               ""),
                          orgs, w, i + 1)
             ELSE M_photo_phase_dead_too(ts, orgs, w, i + 1)
RECURSIVE photo_phase(_, _, _, _)
photo_phase(ts, orgs, w, i) ==
    IF i > Len(orgs) THEN ts
    ELSE LET o == orgs[i]
         IN  IF IsPlant(o) /\ ts.h.is_alive[o]
             THEN LET r == photosynthesize(ts.h, o, w)
                  IN  photo_phase(Tick(r.h,
                                       Append(ts.log, Event("photo", o, 0, TRUE, r.gain,
                                                            ts.h.energy[o], 0)),
                                       ""),
                                  orgs, w, i + 1)
             ELSE photo_phase(ts, orgs, w, i + 1)

\* for carnivore in carnivores: if carnivore.is_alive: carnivore.hunt(herbivores)
RECURSIVE hunt_phase(_, _, _, _)
hunt_phase(ts, carnivores, herbivores, i) ==
    IF ts.err # "" \/ i > Len(carnivores) THEN {ts}
    ELSE LET c == carnivores[i]
         IN  IF ~ts.h.is_alive[c] THEN hunt_phase(ts, carnivores, herbivores, i + 1)
             ELSE UNION {
                    hunt_phase(Tick(r.h,
                                    Append(ts.log,
                                           Event("hunt", c, r.t, r.ret, r.amt, ts.h.energy[c],
                                                 IF r.t = 0 THEN 0 ELSE ts.h.energy[r.t])),
                                    r.err),
                               carnivores, herbivores, i + 1)
                    : r \in UNION {Carnivore_hunt(ts.h, c, herbivores, d) : d \in Draws}}

\* for herbivore in herbivores: if herbivore.is_alive: herbivore.hunt(plants)
RECURSIVE forage_phase(_, _, _, _)
forage_phase(ts, herbivores, plants, i) ==
    IF ts.err # "" \/ i > Len(herbivores) THEN {ts}
    ELSE LET hb == herbivores[i]
         IN  IF ~ts.h.is_alive[hb] THEN forage_phase(ts, herbivores, plants, i + 1)
             ELSE UNION {
                    forage_phase(Tick(r.h,
                                      Append(ts.log,
                                             Event("forage", hb, r.t, r.ret, r.amt,
                                                   ts.h.energy[hb],
                                                   IF r.t = 0 THEN 0 ELSE ts.h.energy[r.t])),
                                      r.err),
                                 herbivores, plants, i + 1)
                    : r \in Herbivore_hunt(ts.h, hb, plants)}

\* the daily cost: 1 for a Plant, 2 + speed * 0.1 for an Animal
M_daily_cost_animals_free(o) ==
    IF IsPlant(o) THEN PlantDailyCost ELSE 0
M_daily_cost_no_speed(o) ==
    IF IsPlant(o) THEN PlantDailyCost ELSE 2 * Scale
daily_cost(o) ==
    IF IsPlant(o) THEN PlantDailyCost ELSE 2 * Scale + (speed[o] * Scale) \div 10

\* for organism in self.__organisms: if organism.is_alive: consume_energy(...)
RECURSIVE M_decay_phase_after_error(_, _, _)
M_decay_phase_after_error(ts, orgs, i) ==
    IF i > Len(orgs) THEN ts
    ELSE LET o == orgs[i]
         IN  IF ts.h.is_alive[o] /\ (IsPlant(o) \/ IsAnimal(o))
             THEN M_decay_phase_after_error(
                      Tick(consume_energy(ts.h, o, daily_cost(o)).h,
                           Append(ts.log, Event("decay", o, 0, TRUE, daily_cost(o),
                                                ts.h.energy[o], 0)),
                           ts.err),
                      orgs, i + 1)
             ELSE M_decay_phase_after_error(ts, orgs, i + 1)
RECURSIVE decay_phase(_, _, _)
decay_phase(ts, orgs, i) ==
    IF ts.err # "" \/ i > Len(orgs) THEN ts
    ELSE LET o == orgs[i]
         IN  IF ts.h.is_alive[o] /\ (IsPlant(o) \/ IsAnimal(o))
             THEN decay_phase(Tick(consume_energy(ts.h, o, daily_cost(o)).h,
                                   Append(ts.log, Event("decay", o, 0, TRUE, daily_cost(o),
                                                        ts.h.energy[o], 0)),
                                   ""),
                              orgs, i + 1)
             ELSE decay_phase(ts, orgs, i + 1)

\* a finished tick, with the organisms' fields as the last phase found them
Done(ts, mid) == [h |-> ts.h, log |-> ts.log, err |-> ts.err, mid |-> mid]

\* the four phases of simulate_day under weather w: the set of ticks it can produce
M_simulate_day_forage_first(h, orgs, w) ==
    LET herbivores == get_organisms_by_type(orgs, "Herbivore")
        plants     == get_organisms_by_type(orgs, "Plant")
        carnivores == get_organisms_by_type(orgs, "Carnivore")
        s1 == forage_phase(Tick(h, <<>>, ""),
                           SelectSeq(herbivores, LAMBDA hb : h.is_alive[hb]), plants, 1)
        s2 == UNION {hunt_phase(ts, carnivores, herbivores, 1) : ts \in s1}
        s3 == {IF ts.err # "" THEN ts ELSE photo_phase(ts, orgs, w, 1) : ts \in s2}
    IN  {Done(decay_phase(ts, orgs, 1), ts.h) : ts \in s3}
simulate_day(h, orgs, w) ==
    LET t1 == photo_phase(Tick(h, <<>>, ""), orgs, w, 1)
        carnivores == get_organisms_by_type(orgs, "Carnivore")
        herbivores == get_organisms_by_type(orgs, "Herbivore")
        s2 == hunt_phase(t1, carnivores, herbivores, 1)
        plants     == get_organisms_by_type(orgs, "Plant")
        s3 == UNION {forage_phase(ts,
                                  SelectSeq(herbivores, LAMBDA hb : ts.h.is_alive[hb]),
                                  plants, 1) : ts \in s2}
    IN  {Done(decay_phase(ts, orgs, 1), ts.h) : ts \in s3}

\* self.__day_count += 1
M_next_day_skips_empty(d, orgs) == IF orgs = <<>> THEN d ELSE d + 1
next_day(d, orgs) == d + 1

\* if random.random() < 0.3: weather = random.choice(["sunny", "cloudy", "rainy"])
next_weather(w) == {w} \cup {"sunny", "cloudy", "rainy"}

----------------------------------------------------------------------------
(* Observation of a public call *)

NoCall ==
    [op |-> "init", self |-> 0, other |-> 0, val |-> 0, ident |-> "", cands |-> <<>>,
     ret |-> FALSE, num |-> 0, err |-> "", t |-> 0, amt |-> 0, draw |-> 0,
     weather |-> "", log |-> <<>>, mid |-> <<>>,
     found |-> 0, counts |-> [cls \in {"Plant", "Herbivore", "Carnivore"} |-> 0],
     cls |-> "", arg |-> StrArg(""), obj |-> NoOrganism]

Snapshot ==
    [h |-> Cur, organisms |-> organisms, day_count |-> day_count,
     weather_condition |-> weather_condition, next_id |-> next_id, returned |-> returned,
     organism_count |-> organism_count, pending |-> pending]

Store(h) ==
    /\ energy' = h.energy
    /\ is_alive' = h.is_alive
    /\ food_eaten' = h.food_eaten

Store_init(h) ==
    /\ energy = h.energy
    /\ is_alive = h.is_alive
    /\ food_eaten = h.food_eaten

\* the list the caller holds once the environment's collection is orgs: the
\* same object shows the change, a copy does not
Held(orgs) == IF returned.alias THEN [returned EXCEPT !.items = orgs] ELSE returned

Begin ==
    /\ calls < MaxCalls
    /\ calls' = calls + 1
    /\ pre' = Snapshot

\* the variables of the client code and of the class counter
ClientUnchanged == UNCHANGED <<next_id, returned, organism_count, pending>>

EnvUnchanged ==
    /\ UNCHANGED <<organisms, weather_condition, day_count, days_simulated>>
    /\ ClientUnchanged

----------------------------------------------------------------------------
(* Inputs of the public calls *)

\* values assigned through the energy setter, and the organisms it is used on
EnergyValues == {-10 * Scale, 0, 20 * Scale}
EnergyTargets == {1, 3, 4, 8}
\* amounts passed to consume_energy, and the organisms it is called on
Amounts == {5 * Scale, -5 * Scale}
Consumers == {3, 5}
\* weather values passed to photosynthesize, and the plants it is called on
Weathers == {"sunny", "cloudy", "rainy", "invalid_weather"}
Growers == {2, 9}
\* candidate lists passed to hunt
CandLists == {<<>>, <<1, 2, 3, 5>>, <<2, 6, 7, 3>>, <<4, 5>>}
\* (self, other) of interact
InteractPairs == {<<1, 3>>, <<1, 4>>, <<3, 1>>, <<3, 4>>, <<4, 3>>, <<4, 1>>, <<5, 3>>}
\* identifiers passed to remove_organism
Idents == {"P001", "H001", "NONEXISTENT"}
\* identifiers passed to find_organism_by_id
FindIdents == {"P001", "H002", "NONEXISTENT"}
\* values assigned through the weather setter
WeatherValues == {"cloudy", "invalid"}
\* constructor calls: the class, the id argument, the energy argument
ConstructorCalls ==
    {<<"Organism", StrArg(""), 50 * Scale>>,
     <<"Organism", NonStrArg("123"), 50 * Scale>>,
     <<"Organism", StrArg("O001"), 50 * Scale>>,
     <<"Plant", StrArg(""), 100 * Scale>>,
     <<"Herbivore", NonStrArg("123"), 70 * Scale>>,
     <<"Carnivore", StrArg(" "), -10 * Scale>>}
\* the populations the environment is set up with, by add_organism calls
Setups == {<<>>, <<1, 2, 3, 4>>, <<5, 6, 3, 7, 4>>}

\* the environments constructed: the weather argument of Environment(name,
\* weather) and the population added
Environments == {<<"sunny", list>> : list \in Setups} \cup {<<"stormy", <<1, 2, 3, 4>>>>}

RECURSIVE add_all(_, _, _)
add_all(orgs, list, i) ==
    IF i > Len(list) THEN orgs
    ELSE add_all(add_organism(orgs, list[i]).orgs, list, i + 1)

----------------------------------------------------------------------------
(* The state after construction: the organisms with the energy they were   *)
(* constructed with, and an Environment("...", "sunny") set up as main()   *)
(* and the tests do, by add_organism calls.                                *)

Init ==
    /\ energy = [o \in Obj |-> Constructed(o).energy]
    /\ is_alive = [o \in Obj |-> Constructed(o).is_alive]
    /\ food_eaten = [o \in Obj |-> 0]
    /\ \E env \in Environments :
           /\ weather_condition = Environment_init(env[1]).weather_condition
           /\ organisms = add_all(Environment_init(env[1]).organisms, env[2], 1)
           /\ day_count = Environment_init(env[1]).day_count
    /\ next_id = Environment_init("sunny").next_id
    /\ returned = NoList
    /\ organism_count = Cardinality(Obj)
    /\ pending = NoPending
    /\ last = NoCall
    /\ pre = Snapshot
    /\ calls = 0
    /\ days_simulated = 0

----------------------------------------------------------------------------
(* The public calls *)

\* organism.energy = value
SetEnergy ==
    \E o \in EnergyTargets, value \in EnergyValues :
        /\ Begin
        /\ Store(energy_set(Cur, o, value))
        /\ last' = [NoCall EXCEPT !.op = "energy", !.self = o, !.val = value]
        /\ EnvUnchanged

\* organism.consume_energy(amount)
ConsumeEnergy ==
    \E o \in Consumers, amount \in Amounts :
        LET r == consume_energy(Cur, o, amount)
        IN  /\ Begin
            /\ Store(r.h)
            /\ last' = [NoCall EXCEPT !.op = "consume_energy", !.self = o,
                                      !.val = amount, !.ret = r.ret]
            /\ EnvUnchanged

\* plant.photosynthesize(weather)
Photosynthesize ==
    \E p \in Growers, w \in Weathers :
        LET r == photosynthesize(Cur, p, w)
        IN  /\ Begin
            /\ Store(r.h)
            /\ last' = [NoCall EXCEPT !.op = "photosynthesize", !.self = p,
                                      !.weather = w, !.num = r.gain]
            /\ EnvUnchanged

\* herbivore.hunt(candidates)
HerbivoreHunt ==
    \E self \in {o \in Obj : IsHerbivore(o)}, cands \in CandLists :
        \E r \in Herbivore_hunt(Cur, self, cands) :
            /\ Begin
            /\ Store(r.h)
            /\ last' = [NoCall EXCEPT !.op = "Herbivore.hunt", !.self = self,
                                      !.cands = cands, !.ret = r.ret, !.err = r.err,
                                      !.t = r.t, !.amt = r.amt]
            /\ EnvUnchanged

\* carnivore.hunt(candidates): random.random() is called only once a prey was
\* chosen
CarnivoreHunt ==
    \E self \in {o \in Obj : IsCarnivore(o)}, cands \in CandLists :
      \E draw \in IF is_alive[self] /\ \E t \in Elems(cands) : IsHerbivore(t) /\ is_alive[t]
                  THEN Draws ELSE {0} :
        \E r \in Carnivore_hunt(Cur, self, cands, draw) :
            /\ Begin
            /\ Store(r.h)
            /\ last' = [NoCall EXCEPT !.op = "Carnivore.hunt", !.self = self,
                                      !.cands = cands, !.ret = r.ret, !.err = r.err,
                                      !.t = r.t, !.amt = r.amt, !.draw = draw]
            /\ EnvUnchanged

\* self.interact(other)
Interact ==
    \E pair \in InteractPairs :
        \E draw \in IF IsCarnivore(pair[1]) /\ IsHerbivore(pair[2]) THEN Draws ELSE {0} :
            LET r == interact(Cur, pair[1], pair[2], draw)
            IN  /\ Begin
                /\ Store(r.h)
                /\ last' = [NoCall EXCEPT !.op = "interact", !.self = pair[1],
                                          !.other = pair[2], !.ret = r.ret,
                                          !.t = r.t, !.amt = r.amt, !.draw = draw]
                /\ EnvUnchanged

\* env.add_organism(organism)
AddOrganism ==
    \E o \in Obj :
        LET r == add_organism(organisms, o)
        IN  /\ Begin
            /\ organisms' = r.orgs
            /\ returned' = Held(r.orgs)
            /\ last' = [NoCall EXCEPT !.op = "add_organism", !.self = o, !.ret = r.ret]
            /\ UNCHANGED <<energy, is_alive, food_eaten, weather_condition, day_count,
                           days_simulated, next_id, organism_count, pending>>

\* env.remove_organism(organism_id): an organism that only the collection
\* referenced (one the menu created) is referenced no longer
RemoveOrganism ==
    \E ident \in Idents :
        LET r == remove_organism(organisms, ident)
        IN  /\ Begin
            /\ organisms' = r.orgs
            /\ last' = [NoCall EXCEPT !.op = "remove_organism", !.ident = ident,
                                      !.ret = r.ret]
            /\ returned' = Held(r.orgs)
            /\ pending' = [pending EXCEPT
                               !.ok = @ + Cardinality((Elems(organisms) \ Elems(r.orgs))
                                                      \cap MenuObj)]
            /\ UNCHANGED <<energy, is_alive, food_eaten, weather_condition, day_count,
                           days_simulated, next_id, organism_count>>

\* env.weather_condition = condition
SetWeather ==
    \E condition \in WeatherValues :
        /\ Begin
        /\ weather_condition' = weather_condition_set(weather_condition, condition)
        /\ last' = [NoCall EXCEPT !.op = "weather_condition", !.weather = condition]
        /\ UNCHANGED <<energy, is_alive, food_eaten, organisms, day_count, days_simulated>>
        /\ ClientUnchanged

\* env.get_population_count()
GetPopulationCount ==
    /\ Begin
    /\ last' = [NoCall EXCEPT !.op = "get_population_count",
                              !.counts = get_population_count(Cur, organisms)]
    /\ UNCHANGED <<energy, is_alive, food_eaten, organisms, weather_condition, day_count,
                   days_simulated>>
    /\ ClientUnchanged

\* env.find_organism_by_id(organism_id)
FindOrganismById ==
    \E ident \in FindIdents :
        LET r == find_organism_by_id(organisms, ident)
        IN  /\ Begin
            /\ last' = [NoCall EXCEPT !.op = "find_organism_by_id", !.ident = ident,
                                      !.found = r.found, !.err = r.err]
            /\ UNCHANGED <<energy, is_alive, food_eaten, organisms, weather_condition,
                           day_count, days_simulated>>
            /\ ClientUnchanged

\* Organism(id, ...), Plant(id, ...), Herbivore(id, ...), Carnivore(id, ...): the
\* object is not kept, so it awaits its __del__ whether or not __init__ raised
Construct ==
    \E c \in ConstructorCalls :
        LET r == Subclass_init(c[1], c[2], Str_Test, c[3], TRUE)
        IN  /\ Begin
            /\ organism_count' = count_init(organism_count, r)
            /\ pending' = Dropped(pending, r)
            /\ last' = [NoCall EXCEPT !.op = "construct", !.cls = c[1], !.arg = c[2],
                                      !.val = c[3], !.err = r.err, !.obj = r.obj]
            /\ UNCHANGED <<energy, is_alive, food_eaten, organisms, weather_condition,
                           day_count, days_simulated, next_id, returned>>

\* env.simulate_day(): the day counter, the weather, then the four phases;
\* the counter is returned unless an exception left the method
Day(w, ts) ==
    /\ day_count' = next_day(day_count, organisms)
    /\ days_simulated' = days_simulated + 1
    /\ weather_condition' = w
    /\ Store(ts.h)
    /\ last' = [NoCall EXCEPT !.op = "simulate_day", !.ret = (ts.err = ""),
                              !.num = IF ts.err = "" THEN day_count' ELSE 0,
                              !.err = ts.err, !.weather = w, !.log = ts.log,
                              !.mid = ts.mid]
    /\ UNCHANGED organisms
    /\ ClientUnchanged

SimulateDay ==
    \E w \in next_weather(weather_condition) :
        \E ts \in simulate_day(Cur, organisms, w) :
            /\ Begin
            /\ Day(w, ts)

Next ==
    \/ SetEnergy
    \/ ConsumeEnergy
    \/ Photosynthesize
    \/ HerbivoreHunt
    \/ CarnivoreHunt
    \/ Interact
    \/ AddOrganism
    \/ RemoveOrganism
    \/ SimulateDay
    \/ SetWeather
    \/ GetPopulationCount
    \/ FindOrganismById
    \/ Construct

Spec == Init /\ [][Next]_vars

----------------------------------------------------------------------------
(* An environment left to run: simulate_day called day after day, as the   *)
(* loops "for _ in range(10)" and "for _ in range(20)" of the tests and    *)
(* the menu's "Simulate Days" do, on a population without a living plant   *)
(* or of plants only.                                                      *)

\* the days simulated at most
MaxDays == 12

\* the populations left to run, and the energies assigned (organism.energy =
\* value) before the first day: a dead plant, animals and plants close to
\* starving
DayWorlds ==
    {[list |-> <<7, 4>>,    set |-> <<<<4, 5 * Scale>>>>],
     [list |-> <<3, 7, 4>>, set |-> <<<<3, 10 * Scale>>, <<7, 10 * Scale>>, <<4, 5 * Scale>>>>],
     [list |-> <<1, 3, 4>>, set |-> <<<<1, 0>>, <<3, 10 * Scale>>, <<4, 10 * Scale>>>>],
     [list |-> <<3>>,       set |-> <<<<3, 20 * Scale>>>>],
     [list |-> <<1, 2, 6>>, set |-> <<<<1, 20 * Scale>>, <<6, 5 * Scale>>>>]}

RECURSIVE assign_all(_, _, _)
assign_all(h, set, i) ==
    IF i > Len(set) THEN h
    ELSE assign_all(energy_set(h, set[i][1], set[i][2]), set, i + 1)

\* the organisms' fields when the first day of a world begins
DayStart(world) ==
    assign_all(Heap([o \in Obj |-> Constructed(o).energy],
                    [o \in Obj |-> Constructed(o).is_alive],
                    [o \in Obj |-> 0]),
               world.set, 1)

InitDays ==
    /\ \E world \in DayWorlds :
           /\ Store_init(DayStart(world))
           /\ organisms = add_all(Environment_init("sunny").organisms, world.list, 1)
    /\ weather_condition = Environment_init("sunny").weather_condition
    /\ day_count = Environment_init("sunny").day_count
    /\ next_id = Environment_init("sunny").next_id
    /\ returned = NoList
    /\ organism_count = Cardinality(Obj)
    /\ pending = NoPending
    /\ last = NoCall
    /\ pre = Snapshot
    /\ calls = 0
    /\ days_simulated = 0

\* for _ in range(days): forest.simulate_day()
RepeatedDay ==
    \E w \in next_weather(weather_condition) :
        \E ts \in simulate_day(Cur, organisms, w) :
            /\ day_count < MaxDays
            /\ pre' = Snapshot
            /\ UNCHANGED calls
            /\ Day(w, ts)

NextDays == RepeatedDay

\* a step that advances the day counter: in a behaviour of SpecDays it is a
\* RepeatedDay step, and it can be taken exactly when RepeatedDay can
DayPasses == day_count < MaxDays /\ day_count' = day_count + 1

\* the loop runs to its end: a day that can be simulated is simulated
SpecDays == InitDays /\ [][NextDays]_vars /\ WF_day_count(DayPasses)

----------------------------------------------------------------------------
(* The interactive program and the code around an environment: main()'s    *)
(* forest, the menu entry that creates an organism, and client code that   *)
(* reads the organisms property, changes the list it got, asks for         *)
(* identifiers, constructs organisms and lets them go.                     *)

\* forest of main(): P001, P002, P003, H001, C001
Forest == <<1, 2, 6, 3, 4>>

\* the organisms a caller appends to a list it got from the property
Appended == {8}

InitProgram ==
    /\ energy = [o \in Obj |-> Constructed(o).energy]
    /\ is_alive = [o \in Obj |-> Constructed(o).is_alive]
    /\ food_eaten = [o \in Obj |-> 0]
    /\ weather_condition = Environment_init("sunny").weather_condition
    /\ organisms = add_all(Environment_init("sunny").organisms, Forest, 1)
    /\ day_count = Environment_init("sunny").day_count
    /\ next_id = Environment_init("sunny").next_id
    /\ returned = NoList
    /\ organism_count = Cardinality(Obj)
    /\ pending = NoPending
    /\ last = NoCall
    /\ pre = Snapshot
    /\ calls = 0
    /\ days_simulated = 0

\* organisms_copy = env.organisms
GetOrganisms ==
    /\ Begin
    /\ returned' = organisms_property(organisms)
    /\ last' = [NoCall EXCEPT !.op = "organisms"]
    /\ UNCHANGED <<energy, is_alive, food_eaten, organisms, weather_condition, day_count,
                   days_simulated, next_id, organism_count, pending>>

\* organisms_copy.pop(): the environment's collection changes with it only if
\* the list is the environment's own
ListPop ==
    /\ returned.held
    /\ Len(returned.items) > 0
    /\ Begin
    /\ returned' = [returned EXCEPT !.items = SubSeq(@, 1, Len(@) - 1)]
    /\ organisms' = IF returned.alias THEN returned'.items ELSE organisms
    /\ last' = [NoCall EXCEPT !.op = "list.pop"]
    /\ UNCHANGED <<energy, is_alive, food_eaten, weather_condition, day_count,
                   days_simulated, next_id, organism_count, pending>>

\* organisms_copy.append(organism)
ListAppend ==
    \E o \in Appended :
        /\ returned.held
        /\ Begin
        /\ returned' = [returned EXCEPT !.items = Append(@, o)]
        /\ organisms' = IF returned.alias THEN returned'.items ELSE organisms
        /\ last' = [NoCall EXCEPT !.op = "list.append", !.self = o]
        /\ UNCHANGED <<energy, is_alive, food_eaten, weather_condition, day_count,
                       days_simulated, next_id, organism_count, pending>>

\* env.get_next_id()
GetNextId ==
    LET r == get_next_id(next_id)
    IN  /\ Begin
        /\ next_id' = r.next_id
        /\ last' = [NoCall EXCEPT !.op = "get_next_id", !.num = r.ret]
        /\ UNCHANGED <<energy, is_alive, food_eaten, organisms, weather_condition,
                       day_count, days_simulated, returned, organism_count, pending>>

\* menu choice 1 of main(), "Add Organism to Environment".  An org_type other
\* than 1, 2, 3 raises before an identifier is taken; a wrong species, energy,
\* growth rate, speed, preference or efficiency raises after it.  Otherwise the
\* organism is constructed under the identifier and handed to add_organism; one
\* that was not added is referenced no longer.
MenuAddOrganism ==
    \E org_type \in 1..4, valid \in BOOLEAN :
        /\ Begin
        /\ IF org_type > 3
           THEN /\ last' = [NoCall EXCEPT !.op = "menu_add", !.val = org_type,
                                          !.err = "InvalidInputException"]
                /\ UNCHANGED <<organisms, next_id, organism_count, pending, returned>>
           ELSE LET n == get_next_id(next_id)
                    org_id == MenuId(MenuTypes[org_type].id_prefix, n.ret)
                    c == Subclass_init(MenuTypes[org_type].cls, StrArg(org_id), Str_Test,
                                       50 * Scale, TRUE)
                    o == MenuObject(org_type, n.ret)
                    r == add_organism(organisms, o)
                IN  /\ next_id' = n.next_id
                    /\ IF ~valid
                       THEN /\ last' = [NoCall EXCEPT !.op = "menu_add", !.val = org_type,
                                                      !.num = n.ret, !.ident = org_id,
                                                      !.err = "InvalidInputException"]
                            /\ UNCHANGED <<organisms, organism_count, pending, returned>>
                       ELSE /\ organism_count' = count_init(organism_count, c)
                            /\ organisms' = r.orgs
                            /\ returned' = Held(r.orgs)
                            /\ pending' = IF r.ret THEN pending ELSE Dropped(pending, c)
                            /\ last' = [NoCall EXCEPT !.op = "menu_add", !.val = org_type,
                                                      !.num = n.ret, !.ident = org_id,
                                                      !.self = o, !.ret = r.ret,
                                                      !.err = c.err, !.obj = c.obj]
        /\ UNCHANGED <<energy, is_alive, food_eaten, weather_condition, day_count,
                       days_simulated>>

\* the interpreter destroys an object that is no longer referenced, at a time of
\* its choosing: Organism.__del__ runs
Destroy ==
    \E which \in {"ok", "rejected"} :
        /\ pending[which] > 0
        /\ pre' = Snapshot
        /\ organism_count' = count_del(organism_count)
        /\ pending' = [pending EXCEPT ![which] = @ - 1]
        /\ last' = [NoCall EXCEPT !.op = "__del__", !.cls = which]
        /\ UNCHANGED <<energy, is_alive, food_eaten, organisms, weather_condition,
                       day_count, days_simulated, next_id, returned, calls>>

NextProgram ==
    \/ GetOrganisms
    \/ ListPop
    \/ ListAppend
    \/ AddOrganism
    \/ RemoveOrganism
    \/ GetNextId
    \/ MenuAddOrganism
    \/ Construct
    \/ Destroy

SpecProgram == InitProgram /\ [][NextProgram]_vars

----------------------------------------------------------------------------
(* Properties *)

InEnv(o) == o \in Elems(organisms)
Events == {last.log[i] : i \in 1..Len(last.log)}
IsHunt == last.op \in {"Herbivore.hunt", "Carnivore.hunt"}

(* C1: after any assignment to an organism's energy (the setter,           *)
(* consume_energy, photosynthesize, hunt, interact, simulate_day) the      *)
(* stored energy is >= 0; assigning a value <= 0 through the setter, or    *)
(* consuming at least the whole energy, stores exactly 0 and leaves the    *)
(* organism dead; a positive value is stored as it is.                     *)
C1_EnergyNeverNegative ==
    /\ \A o \in Obj : energy[o] >= 0 \/ energy[o] = Constructed(o).energy
    /\ last.op = "energy" =>
          /\ last.val <= 0 => energy[last.self] = 0 /\ ~is_alive[last.self]
          /\ last.val > 0 => energy[last.self] = last.val
    /\ last.op = "consume_energy" =>
          /\ last.val >= pre.h.energy[last.self] =>
                energy[last.self] = 0 /\ ~is_alive[last.self] /\ ~last.ret
          /\ last.val < pre.h.energy[last.self] =>
                energy[last.self] = pre.h.energy[last.self] - last.val

\* an organism with energy 50 was assigned -10: energy 0, dead
C1_Witness ==
    /\ last.op = "energy"
    /\ last.val = -10 * Scale
    /\ pre.h.energy[last.self] = 50 * Scale
    /\ pre.h.is_alive[last.self]
    /\ energy[last.self] = 0
    /\ ~is_alive[last.self]

(* C2: an organism that was dead before a public call is dead after it,    *)
(* whatever the call does to its energy.                                   *)
C2_DeathIsTerminal ==
    \A o \in Obj : ~pre.h.is_alive[o] => ~is_alive[o]

\* a dead organism whose energy a call raised above 0 is still dead
C2_Witness ==
    \E o \in Obj :
        /\ ~pre.h.is_alive[o]
        /\ pre.h.energy[o] = 0
        /\ energy[o] > 0
        /\ ~is_alive[o]

(* C3: every simulate_day call raises the day counter by exactly 1, for    *)
(* any population, the empty one included, and the value it returns is the *)
(* new counter; no other call changes the counter, so the counter equals   *)
(* the number of simulate_day calls made.                                  *)
C3_DayCounter ==
    /\ day_count = days_simulated
    /\ last.op = "simulate_day" =>
          /\ day_count = pre.day_count + 1
          /\ last.err = "" => last.num = day_count
    /\ last.op # "simulate_day" => day_count = pre.day_count

\* the second day of an empty environment returned 2
C3_Witness ==
    /\ last.op = "simulate_day"
    /\ organisms = <<>>
    /\ pre.day_count = 1
    /\ day_count = 2
    /\ last.num = 2

\* the phases in the order of the method's text
PhaseRank(ph) ==
    CASE ph = "photo"  -> 1
      [] ph = "hunt"   -> 2
      [] ph = "forage" -> 3
      [] ph = "decay"  -> 4

\* the energy taken from plant p by the forage events before event n of the tick
RECURSIVE Foraged(_, _)
Foraged(p, n) ==
    IF n <= 1 THEN 0
    ELSE Foraged(p, n - 1)
         + (IF last.log[n - 1].ph = "forage" /\ last.log[n - 1].t = p
            THEN last.log[n - 1].amt ELSE 0)

(* C4: a tick runs photosynthesis, then hunting, then foraging, then the   *)
(* daily cost.  A forage finds its plant with the energy it had before the *)
(* tick plus the day's photosynthesis (less what was foraged before in the *)
(* tick), and a herbivore killed by a carnivore in the tick does not       *)
(* forage: it ends with energy 0 and its feeding counter unchanged, and    *)
(* when no herbivore foraged every plant keeps its photosynthesis.         *)
C4_PhaseOrder ==
    last.op = "simulate_day" =>
        LET log == last.log
            n == Len(last.log)
        IN  /\ \A i, j \in 1..n :
                   i < j => PhaseRank(log[i].ph) <= PhaseRank(log[j].ph)
            /\ \A i \in 1..n :
                   log[i].ph = "forage" /\ log[i].ok =>
                       /\ pre.h.is_alive[log[i].t]
                       /\ log[i].et = pre.h.energy[log[i].t]
                                      + photo_gain(log[i].t, weather_condition)
                                      - Foraged(log[i].t, i)
                       /\ log[i].amt = Min(log[i].et, 25 * Scale)
                       /\ log[i].eo = pre.h.energy[log[i].o]
                       /\ last.err = "" =>
                             energy[log[i].o] =
                                 Max(0, log[i].eo + log[i].amt
                                        - (2 * Scale + speed[log[i].o] * 100))
            /\ \A i \in 1..n :
                   log[i].ph = "hunt" /\ log[i].ok =>
                       /\ \A j \in 1..n : ~(log[j].ph = "forage" /\ log[j].o = log[i].t)
                       /\ energy[log[i].t] = 0
                       /\ ~is_alive[log[i].t]
                       /\ food_eaten[log[i].t] = pre.h.food_eaten[log[i].t]
            /\ (last.err = "" /\ \A i \in 1..n : log[i].ph # "forage") =>
                   \A p \in Obj :
                       InEnv(p) /\ IsPlant(p) /\ pre.h.is_alive[p] =>
                           energy[p] = Max(0, pre.h.energy[p]
                                              + photo_gain(p, weather_condition) - Scale)

\* a plant below the forage cap was eaten whole, its photosynthesis of the day
\* included, after a failed hunt
C4_Witness ==
    /\ last.op = "simulate_day"
    /\ last.err = ""
    /\ \E i, j \in 1..Len(last.log) :
           /\ last.log[j].ph = "hunt" /\ ~last.log[j].ok
           /\ last.log[i].ph = "forage" /\ last.log[i].ok
           /\ pre.h.energy[last.log[i].t] = 20 * Scale
           /\ last.log[i].et > 20 * Scale
           /\ last.log[i].amt = last.log[i].et
           /\ energy[last.log[i].t] = 0
           /\ energy[last.log[i].o] > pre.h.energy[last.log[i].o] + 18 * Scale

\* what the daily cost of a Plant or an Animal is said to be
StatedCost(o) == IF IsPlant(o) THEN Scale ELSE 2 * Scale + speed[o] * 100

C6_Original ==
    (last.op = "simulate_day" /\ last.err # "") =>
        /\ last.ret
        /\ \A o \in Obj :
               InEnv(o) /\ last.mid.is_alive[o] /\ (IsPlant(o) \/ IsAnimal(o)) =>
                   \E e \in Events : e.ph = "decay" /\ e.o = o

(* C6, amended: when a call made by a tick raises, simulate_day ends       *)
(* there with that exception: nothing is returned, the day counter stays   *)
(* incremented, what the tick did before is kept (a plant keeps its        *)
(* photosynthesis, less what was foraged), and nothing is processed after  *)
(* the call that raised: no organism pays the daily cost.                  *)
C6_ErrorAbortsTick ==
    (last.op = "simulate_day" /\ last.err # "") =>
        LET n == Len(last.log)
        IN  /\ ~last.ret
            /\ day_count = pre.day_count + 1
            /\ n > 0
            /\ ~last.log[n].ok
            /\ \A e \in Events : e.ph # "decay"
            /\ Cur = last.mid
            /\ \A p \in Obj :
                   InEnv(p) /\ IsPlant(p) /\ pre.h.is_alive[p] =>
                       energy[p] = pre.h.energy[p] + photo_gain(p, weather_condition)
                                   - Foraged(p, n + 1)

\* a tick that raised in the foraging phase: the plant photosynthesized, the wolf
\* paid its failed hunt, nobody paid the daily cost
C6_Witness ==
    /\ last.op = "simulate_day"
    /\ last.err = "AttributeError"
    /\ InEnv(6) /\ energy[6] > pre.h.energy[6]
    /\ InEnv(4) /\ energy[4] = pre.h.energy[4] - 5 * Scale
    /\ InEnv(3) /\ is_alive[3] /\ energy[3] = pre.h.energy[3]
    /\ day_count = pre.day_count + 1

(* C7: add_organism of an organism whose identifier is already in the      *)
(* collection returns False and leaves the collection and the population   *)
(* counts as they were; otherwise it appends the organism and returns      *)
(* True.  No two organisms of the collection ever share an identifier.     *)
C7_AddOrganism ==
    /\ \A i, j \in 1..Len(organisms) :
           i # j => id[organisms[i]] # id[organisms[j]]
    /\ last.op = "add_organism" =>
           IF \E k \in 1..Len(pre.organisms) : id[pre.organisms[k]] = id[last.self]
           THEN /\ ~last.ret
                /\ organisms = pre.organisms
                /\ get_population_count(Cur, organisms)
                      = get_population_count(pre.h, pre.organisms)
           ELSE /\ last.ret
                /\ organisms = Append(pre.organisms, last.self)

\* another object with the identifier of a member was rejected
C7_Witness ==
    /\ last.op = "add_organism"
    /\ ~last.ret
    /\ ~InEnv(last.self)
    /\ \E o \in Obj : InEnv(o) /\ id[o] = id[last.self]
    /\ Len(organisms) = 4

\* the living organisms of a class among the candidates of the last hunt
LivingAmong(cands, cls) ==
    {o \in Elems(cands) : kind[o] = cls /\ pre.h.is_alive[o]}

\* every field of every organism but those of the set is as before the call
SameExcept(others) ==
    \A o \in Obj \ others :
        /\ energy[o] = pre.h.energy[o]
        /\ is_alive[o] = pre.h.is_alive[o]
        /\ food_eaten[o] = pre.h.food_eaten[o]

(* C8: a living carnivore hunting among candidates with a living herbivore *)
(* picks one of them and succeeds exactly when the draw is <=              *)
(* hunting_efficiency x speed / (target speed + 1).  On success it gains   *)
(* min(0.7 x target energy, 50), the target has energy 0 and is dead, the  *)
(* feeding counter rises by 1 and True is returned; otherwise it loses 5   *)
(* (clamped at 0, dead at 0), nothing else changes and False is returned.  *)
C8_CarnivoreHunt ==
    (/\ last.op = "Carnivore.hunt"
     /\ pre.h.is_alive[last.self]
     /\ LivingAmong(last.cands, "Herbivore") # {}) =>
        LET c == last.self
            t == last.t
        IN  /\ t \in LivingAmong(last.cands, "Herbivore")
            /\ last.err = ""
            /\ last.ret <=> (last.draw * 100 * (speed[t] + 1)
                                <= hunting_efficiency[c] * speed[c] * Scale)
            /\ IF last.ret
               THEN /\ energy[c] = pre.h.energy[c]
                                   + Min((7 * pre.h.energy[t]) \div 10, 50 * Scale)
                    /\ is_alive[c]
                    /\ food_eaten[c] = pre.h.food_eaten[c] + 1
                    /\ energy[t] = 0
                    /\ ~is_alive[t]
                    /\ food_eaten[t] = pre.h.food_eaten[t]
                    /\ SameExcept({c, t})
               ELSE /\ energy[c] = Max(0, pre.h.energy[c] - 5 * Scale)
                    /\ is_alive[c] = (energy[c] > 0)
                    /\ food_eaten[c] = pre.h.food_eaten[c]
                    /\ SameExcept({c})

\* efficiency 0.7, speed 5 against speed 3: a draw of exactly 0.875 succeeds and
\* the wolf gains 0.7 x 70 = 49
C8_Witness ==
    /\ last.op = "Carnivore.hunt"
    /\ last.ret
    /\ last.draw = 875
    /\ speed[last.t] = 3
    /\ pre.h.energy[last.t] = 70 * Scale
    /\ energy[last.self] = pre.h.energy[last.self] + 49 * Scale
    /\ ~is_alive[last.t]

(* C9: a living herbivore hunting among candidates with a living plant     *)
(* (all names being strings) moves exactly min(plant energy, 25) from one  *)
(* living plant to itself, raises its feeding counter by 1, changes        *)
(* nothing else and returns True; a plant that had at most 25 ends with    *)
(* energy 0 and dead.                                                      *)
C9_HerbivoreHunt ==
    (/\ last.op = "Herbivore.hunt"
     /\ pre.h.is_alive[last.self]
     /\ LivingAmong(last.cands, "Plant") # {}
     /\ last.err = "") =>
        LET hb == last.self
            p == last.t
            moved == Min(pre.h.energy[last.t], 25 * Scale)
        IN  /\ last.ret
            /\ p \in LivingAmong(last.cands, "Plant")
            /\ energy[hb] = pre.h.energy[hb] + moved
            /\ energy[p] = pre.h.energy[p] - moved
            /\ energy[hb] - pre.h.energy[hb] = pre.h.energy[p] - energy[p]
            /\ is_alive[hb]
            /\ is_alive[p] = (pre.h.energy[p] > 25 * Scale)
            /\ pre.h.energy[p] <= 25 * Scale => energy[p] = 0
            /\ food_eaten[hb] = pre.h.food_eaten[hb] + 1
            /\ food_eaten[p] = pre.h.food_eaten[p]
            /\ SameExcept({hb, p})

\* a plant with energy 20 was eaten whole and is dead
C9_Witness ==
    /\ last.op = "Herbivore.hunt"
    /\ last.ret
    /\ pre.h.energy[last.t] = 20 * Scale
    /\ energy[last.t] = 0
    /\ ~is_alive[last.t]
    /\ energy[last.self] = pre.h.energy[last.self] + 20 * Scale
    /\ food_eaten[last.self] = 1

\* the class a hunter preys on
PreyClass(o) == IF IsHerbivore(o) THEN "Plant" ELSE "Herbivore"

(* C10: a hunt by a dead hunter, or among candidates with no living        *)
(* organism of the prey class (a living Plant for a herbivore, a living    *)
(* Herbivore for a carnivore), returns False, raises nothing and changes   *)
(* no energy, alive flag or feeding counter: the carnivore pays no         *)
(* failed-attempt cost.                                                    *)
C10_HuntWithoutPrey ==
    (/\ IsHunt
     /\ \/ ~pre.h.is_alive[last.self]
        \/ LivingAmong(last.cands, PreyClass(last.self)) = {}) =>
        /\ ~last.ret
        /\ last.err = ""
        /\ Cur = pre.h

\* a living carnivore hunted among a dead herbivore and a non-herbivore and paid
\* nothing
C10_Witness ==
    /\ last.op = "Carnivore.hunt"
    /\ pre.h.is_alive[last.self]
    /\ last.cands # <<>>
    /\ \E o \in Elems(last.cands) : IsHerbivore(o) /\ ~pre.h.is_alive[o]
    /\ ~last.ret
    /\ energy[last.self] = pre.h.energy[last.self]

\* the environment's part of the state is as before the call
EnvSame ==
    /\ organisms = pre.organisms
    /\ weather_condition = pre.weather_condition
    /\ day_count = pre.day_count

(* C11 as stated: in every state, whatever the arguments of construction,  *)
(* every organism's energy is >= 0.                                        *)
C11_Original ==
    /\ \A o \in Obj : energy[o] >= 0
    /\ (last.op = "construct" /\ last.err = "") => last.obj.energy >= 0

(* C11, amended: the constructor stores its energy argument as it is, so   *)
(* an organism constructed with energy >= 0 has energy >= 0 in every       *)
(* state, and one constructed with a negative energy has that energy (and  *)
(* the alive flag it was given) until its energy is first assigned, and    *)
(* energy >= 0 from then on.                                               *)
C11_EnergyFromConstruction ==
    /\ (last.op = "construct" /\ last.err = "") =>
           /\ last.obj.energy = last.val
           /\ last.obj.is_alive
    /\ \A o \in Obj :
           /\ InitEnergy[o] >= 0 => energy[o] >= 0
           /\ energy[o] < 0 => energy[o] = InitEnergy[o] /\ is_alive[o]
           /\ pre.h.energy[o] >= 0 => energy[o] >= 0
    /\ last.op = "energy" => energy[last.self] >= 0

\* an organism constructed with energy -10 and alive was assigned -10: energy 0, dead
C11_Witness ==
    /\ last.op = "energy"
    /\ pre.h.energy[last.self] = -10 * Scale
    /\ pre.h.is_alive[last.self]
    /\ last.val = -10 * Scale
    /\ energy[last.self] = 0
    /\ ~is_alive[last.self]

(* C12 as stated: Plant.interact(target) moves min(25, plant energy) from  *)
(* the plant to the target and returns True when the target is a living    *)
(* Herbivore and the plant is alive; otherwise (a dead herbivore, a dead   *)
(* plant, another class) it returns False and changes no energy.           *)
C12_Original ==
    (last.op = "interact" /\ IsPlant(last.self)) =>
        LET p == last.self
            t == last.other
            moved == Min(25 * Scale, pre.h.energy[last.self])
        IN  IF IsHerbivore(t) /\ pre.h.is_alive[t] /\ pre.h.is_alive[p]
            THEN /\ last.ret
                 /\ energy[t] = pre.h.energy[t] + moved
                 /\ energy[p] = pre.h.energy[p] - moved
                 /\ SameExcept({p, t})
            ELSE /\ ~last.ret
                 /\ \A o \in Obj : energy[o] = pre.h.energy[o]

\* what the factor of a weather value is said to be, in tenths
StatedFactor(w) ==
    CASE w = "sunny"  -> 10
      [] w = "cloudy" -> 6
      [] w = "rainy"  -> 3
      [] OTHER        -> 5

(* C13: photosynthesize(weather) returns 10 x growth_rate x factor, the    *)
(* factor being 1.0 for sunny, 0.6 for cloudy, 0.3 for rainy and 0.5 for   *)
(* any other value, and stores energy + yield through the setter: with a   *)
(* yield >= 0 the plant's energy rises by exactly the yield.  Nothing else *)
(* changes.                                                                *)
C13_Photosynthesize ==
    last.op = "photosynthesize" =>
        LET p == last.self
        IN  /\ last.num = 10 * growth_rate[p] * StatedFactor(last.weather)
            /\ energy[p] = Max(0, pre.h.energy[p] + last.num)
            /\ (last.num >= 0 /\ pre.h.energy[p] >= 0) =>
                   energy[p] - pre.h.energy[p] = last.num
            /\ food_eaten[p] = pre.h.food_eaten[p]
            /\ SameExcept({p})
            /\ EnvSame

\* growth rate 0.2 in sunny weather: the yield is 2.0 and the energy rose by 2.0
C13_Witness ==
    /\ last.op = "photosynthesize"
    /\ growth_rate[last.self] = 20
    /\ last.weather = "sunny"
    /\ last.num = 2 * Scale
    /\ energy[last.self] = pre.h.energy[last.self] + 2 * Scale

\* the yield of the last photosynthesize call against the yields the same plant has
\* under the other weather values: sunny > cloudy > rainy
YieldsOrdered ==
    LET p == last.self
    IN  /\ last.weather = "sunny" => last.num > photosynthesize(Cur, p, "cloudy").gain
        /\ last.weather = "cloudy" =>
               /\ photosynthesize(Cur, p, "sunny").gain > last.num
               /\ last.num > photosynthesize(Cur, p, "rainy").gain
        /\ last.weather = "rainy" => photosynthesize(Cur, p, "cloudy").gain > last.num

(* C14 as stated: for any plant the yields under the three weather values  *)
(* are strictly ordered sunny > cloudy > rainy.                            *)
C14_Original ==
    last.op = "photosynthesize" => YieldsOrdered

(* C14, amended: for any plant with a positive growth rate the yields      *)
(* under the three weather values are strictly ordered sunny > cloudy >    *)
(* rainy; with a negative growth rate, which the constructor accepts, the  *)
(* yields are negative and the order is the reverse.                       *)
C14_YieldOrder ==
    last.op = "photosynthesize" =>
        LET p == last.self
        IN  /\ growth_rate[p] > 0 => YieldsOrdered
            /\ growth_rate[p] < 0 =>
                   /\ last.num < 0
                   /\ last.weather = "sunny" =>
                          last.num < photosynthesize(Cur, p, "cloudy").gain
                   /\ last.weather = "rainy" =>
                          last.num > photosynthesize(Cur, p, "cloudy").gain

\* growth rate 0.2 under cloudy weather yields 1.2, between 2.0 and 0.6
C14_Witness ==
    /\ last.op = "photosynthesize"
    /\ growth_rate[last.self] = 20
    /\ last.weather = "cloudy"
    /\ last.num = 1200
    /\ photosynthesize(Cur, last.self, "sunny").gain = 2000
    /\ photosynthesize(Cur, last.self, "rainy").gain = 600

ValidWeather == {"sunny", "cloudy", "rainy"}

(* C15 as stated: in every state of an environment the current weather is  *)
(* one of sunny, cloudy, rainy.                                            *)
C15_Original ==
    weather_condition \in ValidWeather

(* C15, amended: the constructor stores its weather argument as it is; the *)
(* weather setter and simulate_day only ever store one of sunny, cloudy,   *)
(* rainy.  So a weather that is one of the three stays one of the three,   *)
(* and a weather that is not is the one the environment was constructed    *)
(* with, unchanged so far.                                                 *)
C15_WeatherDomain ==
    /\ pre.weather_condition \in ValidWeather => weather_condition \in ValidWeather
    /\ weather_condition # pre.weather_condition => weather_condition \in ValidWeather
    /\ last.op \notin {"weather_condition", "simulate_day"} =>
           weather_condition = pre.weather_condition

\* an environment constructed with another weather kept it through a tick, in which
\* a plant photosynthesized with the factor 0.5
C15_Witness ==
    /\ last.op = "simulate_day"
    /\ pre.weather_condition \notin ValidWeather
    /\ weather_condition = pre.weather_condition
    /\ \E e \in Events : e.ph = "photo" /\ e.amt * 10 = growth_rate[e.o] * 5 * 100

(* C16: assigning the weather a value in {sunny, cloudy, rainy} makes it   *)
(* the current weather; assigning any other value raises nothing and       *)
(* leaves the weather as it was.  Nothing else changes in either case.     *)
C16_WeatherSetter ==
    last.op = "weather_condition" =>
        /\ last.err = ""
        /\ IF last.weather \in ValidWeather
           THEN weather_condition = last.weather
           ELSE weather_condition = pre.weather_condition
        /\ organisms = pre.organisms
        /\ day_count = pre.day_count
        /\ Cur = pre.h

\* the weather was cloudy by an earlier assignment; assigning "invalid" left it cloudy
C16_Witness ==
    /\ last.op = "weather_condition"
    /\ last.weather = "invalid"
    /\ pre.weather_condition = "cloudy"
    /\ weather_condition = "cloudy"

(* C17: get_population_count returns, for each of Plant, Herbivore and     *)
(* Carnivore, the number of organisms of the collection that are of that   *)
(* class and alive; dead members and organisms outside the collection are  *)
(* not counted, and the call changes nothing.                              *)
C17_PopulationCount ==
    last.op = "get_population_count" =>
        /\ \A cls \in {"Plant", "Herbivore", "Carnivore"} :
               last.counts[cls] =
                   Cardinality({i \in 1..Len(organisms) :
                                   kind[organisms[i]] = cls /\ is_alive[organisms[i]]})
        /\ Cur = pre.h
        /\ EnvSame

\* a dead herbivore still in the collection is not counted
C17_Witness ==
    /\ last.op = "get_population_count"
    /\ \E o \in Obj : InEnv(o) /\ IsHerbivore(o) /\ ~is_alive[o]
    /\ last.counts["Herbivore"] = 0
    /\ last.counts["Plant"] = 2
    /\ last.counts["Carnivore"] = 1

(* C18: remove_organism(id) removes exactly the organism with that         *)
(* identifier, keeps the others in their order and returns True; with no   *)
(* such organism it returns False and leaves the collection as it was.     *)
(* After a removal find_organism_by_id(id) fails and an organism with that *)
(* identifier can be added.  No organism's fields change.                  *)
C18_RemoveOrganism ==
    last.op = "remove_organism" =>
        /\ IF \E i \in 1..Len(pre.organisms) : id[pre.organisms[i]] = last.ident
           THEN /\ last.ret
                /\ organisms = SelectSeq(pre.organisms, LAMBDA o : id[o] # last.ident)
                /\ Len(organisms) = Len(pre.organisms) - 1
                /\ find_organism_by_id(organisms, last.ident).err
                       = "OrganismNotFoundException"
                /\ \A o \in Obj :
                       id[o] = last.ident =>
                           /\ add_organism(organisms, o).ret
                           /\ add_organism(organisms, o).orgs = Append(organisms, o)
           ELSE /\ ~last.ret
                /\ organisms = pre.organisms
        /\ Cur = pre.h
        /\ weather_condition = pre.weather_condition
        /\ day_count = pre.day_count

\* the third of five organisms was removed; the other four keep their order
C18_Witness ==
    /\ last.op = "remove_organism"
    /\ last.ret
    /\ Len(pre.organisms) = 5
    /\ id[pre.organisms[3]] = last.ident
    /\ organisms = <<pre.organisms[1], pre.organisms[2], pre.organisms[4], pre.organisms[5]>>

(* C19: find_organism_by_id(id) returns the organism of the collection     *)
(* whose identifier is id when there is one and raises                     *)
(* OrganismNotFoundException otherwise; it changes nothing.                *)
C19_FindOrganismById ==
    last.op = "find_organism_by_id" =>
        /\ IF \E i \in 1..Len(organisms) : id[organisms[i]] = last.ident
           THEN /\ last.err = ""
                /\ InEnv(last.found)
                /\ id[last.found] = last.ident
           ELSE /\ last.err = "OrganismNotFoundException"
                /\ last.found = 0
        /\ Cur = pre.h
        /\ EnvSame

\* the organism found is not the first of the collection
C19_Witness ==
    /\ last.op = "find_organism_by_id"
    /\ last.err = ""
    /\ last.ident = "H002"
    /\ id[last.found] = "H002"
    /\ organisms[1] # last.found

(* C20: constructing an Organism, Plant, Herbivore or Carnivore with an    *)
(* identifier that is not a non-empty string (the empty string, or a       *)
(* non-string such as 123) raises InvalidInputException and yields no      *)
(* organism; with any non-empty string it succeeds and the organism has    *)
(* that identifier.                                                        *)
C20_ConstructorValidation ==
    last.op = "construct" =>
        /\ IF last.arg.isstr /\ last.arg.v # ""
           THEN /\ last.err = ""
                /\ last.obj.id = last.arg.v
           ELSE /\ last.err = "InvalidInputException"
                /\ last.obj = NoOrganism
        /\ Cur = pre.h
        /\ EnvSame

\* a Herbivore constructed with the id 123 was rejected
C20_Witness ==
    /\ last.op = "construct"
    /\ last.cls = "Herbivore"
    /\ ~last.arg.isstr
    /\ last.err = "InvalidInputException"
    /\ last.obj = NoOrganism

(* C21: interact returns False and changes no energy, alive flag or        *)
(* feeding counter for a Plant with a Carnivore target, a Carnivore with a *)
(* Plant target, a Herbivore with a Carnivore target, a base Organism with *)
(* any target, and a dead plant with a living herbivore target.            *)
C21_InteractNoEffect ==
    (/\ last.op = "interact"
     /\ \/ IsPlant(last.self) /\ IsCarnivore(last.other)
        \/ IsCarnivore(last.self) /\ IsPlant(last.other)
        \/ IsHerbivore(last.self) /\ IsCarnivore(last.other)
        \/ kind[last.self] = "Organism"
        \/ /\ IsPlant(last.self) /\ ~pre.h.is_alive[last.self]
           /\ IsHerbivore(last.other) /\ pre.h.is_alive[last.other]) =>
        /\ ~last.ret
        /\ Cur = pre.h
        /\ EnvSame

\* a dead plant was asked to feed a living herbivore
C21_Witness ==
    /\ last.op = "interact"
    /\ IsPlant(last.self) /\ ~pre.h.is_alive[last.self]
    /\ IsHerbivore(last.other) /\ pre.h.is_alive[last.other]
    /\ ~last.ret
    /\ energy[last.other] = pre.h.energy[last.other]

\* the living plants among the candidates of the last hunt whose species name is
\* the hunter's preference, ignoring case
Matching ==
    {p \in LivingAmong(last.cands, "Plant") :
        /\ IsStr(species_name[p]) /\ IsStr(plant_preference[last.self])
        /\ Lower(species_name[p]) = Lower(plant_preference[last.self])}

(* C23: when a living plant among the candidates has the herbivore's       *)
(* preferred species name, ignoring case, the plant Herbivore.hunt feeds   *)
(* on is one of the matching plants and no other plant's energy changes;   *)
(* when none matches the target is one of the living plants.               *)
C23_PreferredPlant ==
    (/\ last.op = "Herbivore.hunt"
     /\ pre.h.is_alive[last.self]
     /\ LivingAmong(last.cands, "Plant") # {}
     /\ last.err = "") =>
        /\ last.ret
        /\ Matching # {} => last.t \in Matching
        /\ Matching = {} => last.t \in LivingAmong(last.cands, "Plant")
        /\ \A p \in Obj : IsPlant(p) /\ p # last.t => energy[p] = pre.h.energy[p]
        /\ energy[last.t] < pre.h.energy[last.t]

\* the hunter prefers "oak tree": it fed on the plant named "Oak Tree" and left the
\* living plant named "Grass" alone
C23_Witness ==
    /\ last.op = "Herbivore.hunt"
    /\ last.ret
    /\ plant_preference[last.self] = Str_oaktree
    /\ species_name[last.t] = Str_OakTree
    /\ \E p \in LivingAmong(last.cands, "Plant") :
           species_name[p] = Str_Grass /\ energy[p] = pre.h.energy[p]

\* the organisms of the collection that died in the last call
DiedInCall == {o \in Obj : InEnv(o) /\ pre.h.is_alive[o] /\ ~is_alive[o]}

(* C24: simulate_day leaves the collection as it was: same organisms, same *)
(* order.  An organism that died in the tick is still a member: it is not  *)
(* counted by get_population_count, find_organism_by_id finds it, no       *)
(* organism with its identifier can be added, and remove_organism removes  *)
(* it.                                                                     *)
C24_CollectionKept ==
    last.op = "simulate_day" =>
        /\ organisms = pre.organisms
        /\ \A o \in DiedInCall :
               /\ find_organism_by_id(organisms, id[o]).found = o
               /\ find_organism_by_id(organisms, id[o]).err = ""
               /\ \A o2 \in Obj : id[o2] = id[o] =>
                      /\ ~add_organism(organisms, o2).ret
                      /\ add_organism(organisms, o2).orgs = organisms
               /\ get_population_count(Cur, organisms)[kind[o]]
                      = Cardinality({i \in 1..Len(organisms) :
                                        /\ organisms[i] # o
                                        /\ kind[organisms[i]] = kind[o]
                                        /\ is_alive[organisms[i]]})
               /\ remove_organism(organisms, id[o]).ret
               /\ remove_organism(organisms, id[o]).orgs
                      = SelectSeq(organisms, LAMBDA m : m # o)

\* a herbivore was killed in the tick and is still in the collection
C24_Witness ==
    /\ last.op = "simulate_day"
    /\ \E o \in DiedInCall : IsHerbivore(o) /\ energy[o] = 0
    /\ Len(organisms) = 4
    /\ get_population_count(Cur, organisms)["Herbivore"] = 0

(* C27: an organism constructed alive with energy > 0 is, in every state,  *)
(* dead or of energy > 0; so every organism get_population_count counts as *)
(* living has energy > 0.                                                  *)
C27_AliveHasEnergy ==
    /\ \A o \in Obj :
           (InitEnergy[o] > 0 /\ Constructed(o).is_alive) =>
               (is_alive[o] => energy[o] > 0)
    /\ last.op = "get_population_count" =>
           \A cls \in {"Plant", "Herbivore", "Carnivore"} :
               last.counts[cls] =
                   Cardinality({i \in 1..Len(organisms) :
                                   /\ kind[organisms[i]] = cls
                                   /\ is_alive[organisms[i]]
                                   /\ energy[organisms[i]] > 0})

\* after a tick a herbivore is dead with energy 0 and the carnivore that killed it
\* is alive with more energy than it had
C27_Witness ==
    /\ last.op = "simulate_day"
    /\ \E o \in Obj : InEnv(o) /\ pre.h.is_alive[o] /\ ~is_alive[o] /\ energy[o] = 0
    /\ \E c \in Obj : InEnv(c) /\ IsCarnivore(c) /\ is_alive[c]
                      /\ energy[c] > pre.h.energy[c]

(* C28: simulate_day changes no energy, alive flag or feeding counter of   *)
(* an organism that was dead when the call began, and no step of the tick  *)
(* acts on it or takes it as prey.                                         *)
C28_DeadUntouched ==
    last.op = "simulate_day" =>
        \A o \in Obj :
            ~pre.h.is_alive[o] =>
                /\ energy[o] = pre.h.energy[o]
                /\ ~is_alive[o]
                /\ food_eaten[o] = pre.h.food_eaten[o]
                /\ \A e \in Events : e.o # o /\ e.t # o

\* a tick with a dead herbivore in the collection: the carnivore found no prey and
\* a plant photosynthesized
C28_Witness ==
    /\ last.op = "simulate_day"
    /\ \E o \in Obj : InEnv(o) /\ IsHerbivore(o) /\ ~pre.h.is_alive[o]
                      /\ energy[o] = pre.h.energy[o]
    /\ \E e \in Events : e.ph = "hunt" /\ ~e.ok /\ e.t = 0
    /\ \E e \in Events : e.ph = "photo"

\* the living organisms of a class in the collection, now and before the last call
Living(cls) == {o \in Obj : InEnv(o) /\ kind[o] = cls /\ is_alive[o]}
LivingBefore(cls) ==
    {o \in Obj : o \in Elems(pre.organisms) /\ kind[o] = cls /\ pre.h.is_alive[o]}

\* a carnivore whose success value efficiency x speed / (speed of hb + 1) is >= 1
SureHunter(c, hb) ==
    /\ IsCarnivore(c)
    /\ hunting_efficiency[c] * speed[c] >= 100 * (speed[hb] + 1)

\* the days of an environment that had no living plant when the day began
C25_Days ==
    (last.op = "simulate_day" /\ LivingBefore("Plant") = {}) =>
        /\ \A hb \in LivingBefore("Herbivore") : energy[hb] < pre.h.energy[hb]
        /\ \A c \in LivingBefore("Carnivore") :
               energy[c] > pre.h.energy[c] =>
                   \E e \in Events :
                       /\ e.ph = "hunt" /\ e.o = c /\ e.ok
                       /\ e.t \in LivingBefore("Herbivore")
                       /\ ~is_alive[e.t]
        /\ \A cls \in {"Herbivore", "Carnivore"} :
               get_population_count(pre.h, pre.organisms)[cls] = 0 =>
                   get_population_count(Cur, organisms)[cls] = 0
        /\ \A hb \in LivingBefore("Herbivore") :
               (/\ LivingBefore("Herbivore") = {hb}
                /\ \E c \in LivingBefore("Carnivore") : SureHunter(c, hb)) =>
                   ~is_alive[hb]

(* C25: in an environment with no living plant (speeds >= 0), simulate_day *)
(* called day after day leads to a state with no living herbivore, and     *)
(* from there to a state with no living carnivore.  On each such day every *)
(* living herbivore's energy strictly decreases, a carnivore's energy      *)
(* rises only if it killed a herbivore that was alive, a Herbivore or      *)
(* Carnivore count of 0 stays 0, and a lone living herbivore facing a      *)
(* living carnivore of success value >= 1 is dead at the end of the day.   *)
C25_Collapse ==
    /\ []C25_Days
    /\ (Living("Plant") = {}) ~> (Living("Herbivore") = {})
    /\ (Living("Plant") = {} /\ Living("Herbivore") = {}) ~> (Living("Carnivore") = {})

\* both herbivores were killed by the carnivore, which then starved: no plant, no
\* herbivore and no carnivore is alive
C25_Witness ==
    /\ last.op = "simulate_day"
    /\ Living("Plant") = {} /\ Living("Herbivore") = {} /\ Living("Carnivore") = {}
    /\ \E c \in Obj : InEnv(c) /\ IsCarnivore(c) /\ food_eaten[c] = 2
    /\ \E c \in LivingBefore("Carnivore") : energy[c] = 0

\* the organisms of the collection that were alive with energy > n when the
\* first day began
StartedAbove(n) ==
    {p \in Elems(organisms) :
        \E world \in DayWorlds :
            /\ organisms = add_all(Environment_init("sunny").organisms, world.list, 1)
            /\ DayStart(world).is_alive[p]
            /\ DayStart(world).energy[p] > n * Scale}

\* the collection holds plants only, each of growth rate >= 0
OnlyPlants ==
    /\ organisms # <<>>
    /\ \A o \in Elems(organisms) : IsPlant(o) /\ growth_rate[o] >= 0

(* C26: in an environment of plants only, of growth rate >= 0, a day takes *)
(* at most 1 from a living plant's energy whatever the weather, and after  *)
(* n days every plant that started alive with energy > n is alive and      *)
(* counted by get_population_count.                                        *)
C26_PlantsPersist ==
    OnlyPlants =>
        /\ last.op = "simulate_day" =>
               \A p \in LivingBefore("Plant") : energy[p] >= pre.h.energy[p] - 1 * Scale
        /\ \A p \in StartedAbove(day_count) : is_alive[p] /\ energy[p] > 0
        /\ get_population_count(Cur, organisms)["Plant"]
               >= Cardinality(StartedAbove(day_count))

\* four rainy days: the plant that started with 5 and growth rate 0.1 lost 0.7 a
\* day and is alive, as are the two others
C26_Witness ==
    /\ OnlyPlants
    /\ day_count = 4
    /\ get_population_count(Cur, organisms)["Plant"] = 3
    /\ \E p \in StartedAbove(4) : energy[p] = 5 * Scale - 4 * 700

\* the calls that change a list got from the organisms property
ListCalls == {"list.pop", "list.append"}

(* C22: the list the organisms property returns is a copy: it has the      *)
(* collection's organisms in their order, removing from it or appending to *)
(* it leaves the environment's collection as it was, and add_organism (by  *)
(* a direct call or through the menu) and remove_organism leave a list     *)
(* returned earlier as it was.                                             *)
C22_OrganismsIsCopy ==
    /\ last.op = "organisms" =>
           returned.held /\ returned.items = organisms /\ organisms = pre.organisms
    /\ last.op \in ListCalls => organisms = pre.organisms
    /\ (last.op \in {"add_organism", "remove_organism", "menu_add"} /\ pre.returned.held) =>
           returned.items = pre.returned.items

\* the caller popped the last of the five organisms from the list it got: the
\* forest still has five
C22_Witness ==
    /\ last.op = "list.pop"
    /\ Len(pre.returned.items) = 5
    /\ Len(returned.items) = 4
    /\ organisms = Forest

\* the organisms whose __init__ returned and that are not destroyed: those of
\* Obj, those the menu added to the collection, those awaiting __del__
LiveOrganisms ==
    Cardinality(Obj) + Cardinality(Elems(organisms) \cap MenuObj) + pending.ok

(* C29 as stated: the class counter equals the number of successfully      *)
(* constructed organisms not yet destroyed and is never negative; a        *)
(* successful construction raises it by 1, destroying an organism lowers   *)
(* it by 1, and a rejected construction leaves it unchanged, also after    *)
(* the rejected object is destroyed.                                       *)
C29_Original ==
    /\ organism_count = LiveOrganisms
    /\ organism_count >= 0
    /\ last.op = "construct" =>
           organism_count = pre.organism_count + (IF last.err = "" THEN 1 ELSE 0)
    /\ last.op = "__del__" =>
           organism_count = pre.organism_count - (IF last.cls = "ok" THEN 1 ELSE 0)

\* the calls that take an identifier number from the environment
TakesNumber ==
    \/ last.op = "get_next_id"
    \/ last.op = "menu_add" /\ last.ident # ""

\* get_next_id hands out 1, 2, 3, ...: the number handed out is the successor of
\* the one before, and no other call moves the sequence
NextIdSequence ==
    /\ next_id >= 1
    /\ pre.next_id = 1 \/ pre.next_id = next_id \/ pre.next_id = next_id - 1
    /\ TakesNumber => last.num = pre.next_id /\ next_id = last.num + 1
    /\ ~TakesNumber => next_id = pre.next_id

\* the organism the menu constructed has an identifier no organism of the forest
\* has, and was added
MenuIdIsNew ==
    (last.op = "menu_add" /\ last.err = "" /\ last.self # 0) =>
        /\ ~HasId(pre.organisms, last.ident)
        /\ last.ret
        /\ organisms = Append(pre.organisms, last.self)

(* C30 as stated: get_next_id hands out 1, 2, 3, ..., each value once, and *)
(* the identifier the menu builds from it (P, H or C and the number on     *)
(* three digits) is never that of an organism already in the forest, so    *)
(* add_organism of a menu-created organism always succeeds.                *)
C30_Original ==
    /\ NextIdSequence
    /\ MenuIdIsNew

====
